---- MODULE Spec2Model ----
(***************************************************************************)
(* Map-reduce summarization of an uploaded document.                       *)
(*                                                                         *)
(*   src/backend/app/api/upload.py      documents_db, the document record  *)
(*   src/backend/app/api/summarize.py   POST /summarize (summarize_document)*)
(*   src/langgraph_pipeline/graph.py    distribute -> map -> reduce -> END *)
(*   src/langgraph_pipeline/nodes.py    the three nodes                    *)
(*   src/langgraph_pipeline/state.py    DocumentState                      *)
(*                                                                         *)
(*   src/document_processor/chunker.py  the two chunking passes           *)
(*                                                                         *)
(* Every request handler is a coroutine on one event loop: it runs         *)
(* atomically from one await to the next, and the handlers of different    *)
(* requests interleave at the awaits.  One action of the model is one such *)
(* stretch of code.                                                        *)
(***************************************************************************)
EXTENDS Integers, Sequences, FiniteSets, TLC

\* ------------------------------------------------------------- bounds
\* Largest number of summary chunks of the uploaded document.
MaxChunks == 2
\* Number of POST /summarize requests of a behaviour.
MaxReqs == 2

\* Largest number of pages given to a chunking pass.
MaxPages == 2
\* Largest number of characters of the pages of a pass, taken together.
MaxTextLen == 3
\* Largest chunk_size given to a chunking pass.
MaxChunkSize == 4
\* Ids in a retrieved list, and the largest k of a metric call.
MaxRetrieved == 3
MaxK == 3

Reqs == 1..MaxReqs

\* ------------------------------------------------------------- values
\* Python's None.
None == "None"
\* The id of the uploaded document, and an id documents_db does not hold.
DocId == "d1"
MissingId == "dx"
DocIds == {DocId, MissingId}
\* What the synthesis call can answer (response.content): any string, the
\* empty one included.
SynthContents == {"", "S"}

VARIABLES
    documents_db,   \* upload.documents_db: doc id -> record
    pc,             \* per request: where its handler stands
    doc_of,         \* per request: request.document_id
    state,          \* per request: the DocumentState of its pipeline run
    calls,          \* per request: the summarize_chunk_async tasks of gather
    completed,      \* per request: the calls that returned, in completion order
    synth,          \* per request: the chain.invoke call of reduce_synthesize
    ck_pc,          \* chunking pass: where create_*_chunks stands
    ck_in,          \* chunking pass: its arguments
    full_text,      \* chunking pass: the consolidated buffer
    page_markers,   \* chunking pass: one marker per page added
    segments,       \* chunking pass: what splitter.split_text returned
    chunk_dicts,    \* chunking pass: the chunks built so far
    chunk_starts,   \* chunking pass: chunk_start of every chunk built so far
    current_position, \* chunking pass: the search cursor
    up_in,          \* upload: the pages and the chunking settings
    up_out,         \* upload: rag_chunks and summary_chunks
    rag_chunks,     \* upload: what create_rag_chunks returned to the handler
    met_in,         \* metric call: retrieved_ids, relevant_ids, k
    met_out         \* metric call: the metric computed and its value

\* The state of the summarization requests.
pipelineVars == <<documents_db, pc, doc_of, state, calls, completed, synth>>
\* The state of one chunking pass.
chunkerVars ==
    <<ck_pc, ck_in, full_text, page_markers, segments, chunk_dicts,
      chunk_starts, current_position>>
\* The state of one upload.
uploadVars == <<up_in, up_out, rag_chunks>>
\* The state of one retrieval-metric call.
metricVars == <<met_in, met_out>>

vars == <<documents_db, pc, doc_of, state, calls, completed, synth,
          ck_pc, ck_in, full_text, page_markers, segments, chunk_dicts,
          chunk_starts, current_position, up_in, up_out, rag_chunks,
          met_in, met_out>>

\* ------------------------------------------------------------- data
\* The summary chunks create_summary_chunks stored for a document of n
\* chunks: chunk_index is 0-based and gap-free (enumerate).
SummaryChunks(n) == [k \in 1..n |-> [chunk_index |-> k - 1]]

\* The record upload_document stores.
UploadedRecord(n) ==
    [summary_chunks |-> SummaryChunks(n), status |-> "uploaded", summary |-> None]

\* No pipeline state exists before the handler builds initial_state.
NoState ==
    [document_id |-> None, large_chunks |-> <<>>, total_chunks |-> 0,
     chunk_summaries |-> <<>>, summaries_completed |-> 0,
     final_summary |-> "", status |-> "none", error_message |-> None]

\* initial_state of summarize_document.
InitialState(doc_id, doc_data) ==
    [document_id |-> doc_id, large_chunks |-> doc_data.summary_chunks,
     total_chunks |-> 0, chunk_summaries |-> <<>>, summaries_completed |-> 0,
     final_summary |-> "", status |-> "distributing", error_message |-> None]

NoSynth == [st |-> "none", sections |-> <<>>, section_count |-> 0, content |-> ""]

\* Python truthiness of documents_db[doc_id].get("summary"): None and the
\* empty string are both false.
Truthy(s) == s # None /\ s # ""

\* ------------------------------------------------------------- nodes.py
\* distribute_chunks with the status assignment forgotten.
distribute_chunks_no_status(s) ==
    [s EXCEPT !.total_chunks = Len(s.large_chunks),
              !.chunk_summaries = <<>>,
              !.summaries_completed = 0]

\* distribute_chunks: no check of the chunks, four assignments.
distribute_chunks(s) ==
    [s EXCEPT !.status = "mapping",
              !.total_chunks = Len(s.large_chunks),
              !.chunk_summaries = <<>>,
              !.summaries_completed = 0]

\* The summarization capability behind chain.ainvoke, as a deterministic
\* labelling stub: its answer names the section number it was called with.
SummarizeSection(section_no, total) == <<"summary", section_no, total>>

\* summarize_chunk_async: the call made for one chunk, 1-indexed section.
summarize_chunk_async(chunk, total_chunks) ==
    SummarizeSection(chunk.chunk_index + 1, total_chunks)

\* asyncio.gather(*tasks), return_exceptions left False: the awaiting
\* coroutine gets the first exception as soon as one task has failed ...
GatherRaises(cs) == \E i \in DOMAIN cs : cs[i] = "failed"

\* gather with return_exceptions=True: it returns once every task has
\* settled, failed ones included.
GatherSettled(cs) == \A i \in DOMAIN cs : cs[i] # "pending"

\* ... and gets the list of results once every task has returned.
GatherReturns(cs) == \A i \in DOMAIN cs : cs[i] = "returned"

\* Results collected as the calls complete (asyncio.as_completed).
GatherResultsAsCompleted(chunks, total_chunks, order) ==
    [k \in 1..Len(order) |-> summarize_chunk_async(chunks[order[k]], total_chunks)]

\* The list gather returns: one result per awaitable, in the order of the
\* awaitables (the order of chunks), whatever the order of completion.
GatherResults(chunks, total_chunks, order) ==
    [k \in 1..Len(chunks) |-> summarize_chunk_async(chunks[k], total_chunks)]

\* map_summarize after the await: lines 102-104.
map_commit_count_kept(s, summaries) ==
    [s EXCEPT !.chunk_summaries = summaries,
              !.status = "reducing"]
map_commit(s, summaries) ==
    [s EXCEPT !.chunk_summaries = summaries,
              !.summaries_completed = Len(summaries),
              !.status = "reducing"]

\* The section label taken from enumerate's i, not i + 1.
ConcatenatedZeroBased(summaries) ==
    [k \in 1..Len(summaries) |-> [label |-> k - 1, text |-> summaries[k]]]

\* reduce_synthesize: the "SECTION {i+1} SUMMARY:\n{summary}" pieces, for
\* i, summary in enumerate(summaries); TLA+ position k is Python's i = k - 1.
Concatenated(summaries) ==
    [k \in 1..Len(summaries) |-> [label |-> (k - 1) + 1, text |-> summaries[k]]]

\* What chain.invoke is given.
SynthInput(s) ==
    [sections |-> Concatenated(s.chunk_summaries),
     section_count |-> Len(s.chunk_summaries)]

\* reduce_synthesize after the call: lines 170-171.
reduce_commit(s, content) ==
    [s EXCEPT !.final_summary = content, !.status = "complete"]

\* ------------------------------------------------------------- chunker.py
\* Text is a sequence of characters; offsets are Python's, from 0.
NL == "\n"
SP == " "
\* The characters page text is drawn from.
Alphabet == {"a", SP, NL}
\* str.strip() removes these from both ends.
IsSpace(c) == c \in {SP, NL}

\* The fixed "\n\n" appended after every page (lines 37 and 109).
PageSeparator == <<NL, NL>>

\* separators=["\n\n", "\n", ". ", " ", ""] (lines 48 and 120).
Separators == << <<NL, NL>>, <<NL>>, <<".", SP>>, <<SP>>, <<>> >>

\* text[i:j]
Slice(text, i, j) == SubSeq(text, i + 1, j)

\* text[i:i+len(sub)] == sub
OccursAt(text, sub, i) ==
    /\ i >= 0
    /\ i + Len(sub) <= Len(text)
    /\ Slice(text, i, i + Len(sub)) = sub

\* str.find(sub, start): the lowest index >= start where sub occurs, or -1.
Find(text, sub, start) ==
    LET hits == {i \in start..Len(text) : OccursAt(text, sub, i)}
    IN  IF hits = {} THEN -1 ELSE CHOOSE i \in hits : \A j \in hits : i <= j

\* str.strip(), as the number of characters dropped at each end.
LeadingSpace(text) ==
    LET ks == {k \in 0..Len(text) : \A i \in 1..k : IsSpace(text[i])}
    IN  CHOOSE k \in ks : \A m \in ks : m <= k

TrailingSpace(text) ==
    LET ks == {k \in 0..Len(text) : \A i \in (Len(text) - k + 1)..Len(text) : IsSpace(text[i])}
    IN  CHOOSE k \in ks : \A m \in ks : m <= k

Strip(text) ==
    IF LeadingSpace(text) = Len(text) THEN <<>>
    ELSE Slice(text, LeadingSpace(text), Len(text) - TrailingSpace(text))

\* A piece of the buffer as the splitter handles it: its text, and the
\* offset in the buffer it was drawn from (the offset is not part of what
\* the splitter returns; it is kept to say where a segment truly lies).
Piece(start, text) == [start |-> start, text |-> text]

\* re.split with the separator captured: the leftmost, non-overlapping
\* matches of sep in text, scanning from offset i.
RECURSIVE Matches(_, _, _)
Matches(text, sep, i) ==
    IF i + Len(sep) > Len(text) THEN <<>>
    ELSE IF OccursAt(text, sep, i)
         THEN <<i>> \o Matches(text, sep, i + Len(sep))
         ELSE Matches(text, sep, i + 1)

\* _split_text_with_regex with keep_separator=True: every separator stays
\* at the start of the piece that follows it; empty pieces are dropped.  The
\* empty separator gives the characters.
SplitWithRegex(p, sep) ==
    IF sep = <<>>
    THEN [k \in 1..Len(p.text) |-> Piece(p.start + k - 1, <<p.text[k]>>)]
    ELSE LET cuts == <<0>> \o Matches(p.text, sep, 0) \o <<Len(p.text)>>
             all == [k \in 1..(Len(cuts) - 1) |->
                        Piece(p.start + cuts[k], Slice(p.text, cuts[k], cuts[k + 1]))]
         IN  SelectSeq(all, LAMBDA q : q.text # <<>>)

\* re.search(separator, text)
Contains(text, sep) == \E i \in 0..Len(text) : OccursAt(text, sep, i)

\* "".join of consecutive pieces.
RECURSIVE JoinText(_)
JoinText(ps) == IF ps = <<>> THEN <<>> ELSE Head(ps).text \o JoinText(Tail(ps))

\* _join_docs: join, strip, and None (here: no document) if nothing is left.
JoinDocs(cur) ==
    LET text == JoinText(cur)
    IN  IF Strip(text) = <<>> THEN <<>>
        ELSE <<Piece(Head(cur).start + LeadingSpace(text), Strip(text))>>

\* The while loop of _merge_splits: drop pieces from the front of the
\* current document until what is left is within the overlap and the next
\* piece fits.  The separator is "" here, of length 0.
RECURSIVE PopFrontToOverlap(_, _, _, _, _)
PopFrontToOverlap(cur, total, len, chunk_size, chunk_overlap) ==
    IF total > chunk_overlap
    THEN PopFrontToOverlap(Tail(cur), total - Len(Head(cur).text), len,
                           chunk_size, chunk_overlap)
    ELSE [cur |-> cur, total |-> total]

RECURSIVE PopFront(_, _, _, _, _)
PopFront(cur, total, len, chunk_size, chunk_overlap) ==
    IF total > chunk_overlap \/ (total + len > chunk_size /\ total > 0)
    THEN PopFront(Tail(cur), total - Len(Head(cur).text), len, chunk_size, chunk_overlap)
    ELSE [cur |-> cur, total |-> total]

\* _merge_splits: pack pieces into documents of at most chunk_size.
RECURSIVE MergeLoop(_, _, _, _, _, _)
MergeLoop(splits, cur, total, docs, chunk_size, chunk_overlap) ==
    IF splits = <<>> THEN docs \o JoinDocs(cur)
    ELSE LET d == Head(splits)
             len == Len(d.text)
             over == total + len > chunk_size /\ cur # <<>>
             popped == IF over THEN PopFront(cur, total, len, chunk_size, chunk_overlap)
                       ELSE [cur |-> cur, total |-> total]
             docs2 == IF over THEN docs \o JoinDocs(cur) ELSE docs
         IN  MergeLoop(Tail(splits), Append(popped.cur, d), popped.total + len,
                       docs2, chunk_size, chunk_overlap)

MergeSplits(splits, chunk_size, chunk_overlap) ==
    MergeLoop(splits, <<>>, 0, <<>>, chunk_size, chunk_overlap)

\* The separator _split_text picks: the first of the list that is "" or
\* occurs in the text; the index in the list.
RECURSIVE PickSeparator(_, _, _)
PickSeparator(text, seps, i) ==
    IF i >= Len(seps) THEN Len(seps)
    ELSE IF seps[i] = <<>> \/ Contains(text, seps[i]) THEN i
    ELSE PickSeparator(text, seps, i + 1)

\* RecursiveCharacterTextSplitter._split_text.
RECURSIVE SplitPiece(_, _, _, _)
RECURSIVE SplitLoop(_, _, _, _, _, _)
SplitLoop(splits, good, final, new_seps, chunk_size, chunk_overlap) ==
    IF splits = <<>>
    THEN final \o MergeSplits(good, chunk_size, chunk_overlap)
    ELSE LET s == Head(splits)
         IN  IF Len(s.text) < chunk_size
             THEN SplitLoop(Tail(splits), Append(good, s), final, new_seps,
                            chunk_size, chunk_overlap)
             ELSE SplitLoop(Tail(splits), <<>>,
                            final \o MergeSplits(good, chunk_size, chunk_overlap)
                                  \o (IF new_seps = <<>> THEN <<s>>
                                      ELSE SplitPiece(s, new_seps, chunk_size, chunk_overlap)),
                            new_seps, chunk_size, chunk_overlap)

SplitPiece(p, seps, chunk_size, chunk_overlap) ==
    LET i == PickSeparator(p.text, seps, 1)
        new_seps == IF seps[i] = <<>> THEN <<>> ELSE SubSeq(seps, i + 1, Len(seps))
    IN  SplitLoop(SplitWithRegex(p, seps[i]), <<>>, <<>>, new_seps,
                  chunk_size, chunk_overlap)

\* splitter.split_text(full_text): the segments, each with its true offset.
SplitText(text, chunk_size, chunk_overlap) ==
    SplitPiece(Piece(0, text), Separators, chunk_size, chunk_overlap)

\* One iteration of the page loop (lines 35-42, 107-114): the buffer grows
\* by the page text and the separator ...
AddPageTextOneNewline(text, page) == text \o page.text \o <<NL>>
AddPageText(text, page) == text \o page.text \o PageSeparator

\* ... and the marker runs from the old end of the buffer to the new one,
\* separator included.
PageMarkerTextOnly(text, page) ==
    [page_number |-> page.page_number,
     start_pos |-> Len(text),
     end_pos |-> Len(text) + Len(page.text)]
PageMarker(text, page) ==
    [page_number |-> page.page_number,
     start_pos |-> Len(text),
     end_pos |-> Len(AddPageText(text, page))]

\* The test of lines 66 and 137.
OverlapsMarkerClosed(chunk_start, chunk_end, marker) ==
    chunk_start <= marker.end_pos /\ chunk_end >= marker.start_pos
OverlapsMarker(chunk_start, chunk_end, marker) ==
    chunk_start < marker.end_pos /\ chunk_end > marker.start_pos

\* page_numbers: the pages of the markers that pass the test, in marker order.
PageNumbers(markers, chunk_start, chunk_end) ==
    LET hit == SelectSeq(markers, LAMBDA m : OverlapsMarker(chunk_start, chunk_end, m))
    IN  [k \in 1..Len(hit) |-> hit[k].page_number]

\* f"{min(page_numbers)}-{max(page_numbers)}" if page_numbers else "Unknown",
\* as the pieces of the string.
PageRangeFromZero(page_numbers) ==
    IF page_numbers = <<>> THEN <<"Unknown">>
    ELSE LET ns == {page_numbers[k] : k \in 1..Len(page_numbers)}
         IN  <<0, "-", CHOOSE n \in ns : \A m \in ns : n >= m>>
PageRange(page_numbers) ==
    IF page_numbers = <<>> THEN <<"Unknown">>
    ELSE LET ns == {page_numbers[k] : k \in 1..Len(page_numbers)}
         IN  <<CHOOSE n \in ns : \A m \in ns : n <= m, "-",
               CHOOSE n \in ns : \A m \in ns : n >= m>>

\* The dictionary appended for one chunk (lines 69-78, 142-151), without
\* its token_count.
ChunkDictTaggedRag(kind, idx, text, page_numbers, document_id) ==
    [chunk_index |-> idx, text |-> text, char_count |-> Len(text),
     page_numbers |-> page_numbers,
     page_number |-> IF page_numbers # <<>> THEN page_numbers[1] ELSE None,
     document_id |-> document_id, chunk_type |-> "rag"]
ChunkDict(kind, idx, text, page_numbers, document_id) ==
    IF kind = "rag"
    THEN [chunk_index |-> idx, text |-> text, char_count |-> Len(text),
          page_numbers |-> page_numbers,
          page_number |-> IF page_numbers # <<>> THEN page_numbers[1] ELSE None,
          document_id |-> document_id, chunk_type |-> "rag"]
    ELSE [chunk_index |-> idx, text |-> text, char_count |-> Len(text),
          page_numbers |-> page_numbers,
          page_range |-> PageRange(page_numbers),
          document_id |-> document_id, chunk_type |-> "summary"]

\* One iteration of the chunk loop (lines 58-80, 130-153): the forward
\* search from the cursor, the pages of the span found, the dictionary, and
\* the cursor one past the start found.  find's -1 is used as it comes.
Attribute(kind, text, markers, chunk_text, idx, cursor, document_id) ==
    LET chunk_start == Find(text, chunk_text, cursor)
        chunk_end == chunk_start + Len(chunk_text)
    IN  [chunk |-> ChunkDict(kind, idx, chunk_text,
                             PageNumbers(markers, chunk_start, chunk_end),
                             document_id),
         chunk_start |-> chunk_start,
         cursor |-> chunk_start + 1]

\* ------------------------------------------------------------- upload.py
\* Lines 67-80: the arguments of each pass.  Both get the cleaned pages and
\* the new document id; each gets its own two settings.
PassArgs(kind, pages, settings, document_id) ==
    [pages_data |-> pages,
     chunk_size |-> IF kind = "rag" THEN settings.rag_chunk_size
                    ELSE settings.summary_chunk_size,
     chunk_overlap |-> IF kind = "rag" THEN settings.rag_chunk_overlap
                       ELSE settings.summary_chunk_overlap,
     document_id |-> document_id, kind |-> kind]

\* ------------------------------------------------------------- summarize.py
\* except Exception: the record's status, then HTTP 500.
HandlerExcept(db, doc_id) == [db EXCEPT ![doc_id].status = "error"]

\* Lines 69-70.
HandlerStore(db, doc_id, final_state) ==
    [db EXCEPT ![doc_id].summary = final_state.final_summary,
               ![doc_id].status = "summarized"]

\* ------------------------------------------------------------- Init
\* No chunking pass is running.
ChunkerIdle ==
    /\ ck_pc = "idle"
    /\ ck_in = <<>>
    /\ full_text = <<>>
    /\ page_markers = <<>>
    /\ segments = <<>>
    /\ chunk_dicts = <<>>
    /\ chunk_starts = <<>>
    /\ current_position = 0

\* No upload is running.
UploadIdle ==
    /\ up_in = <<>>
    /\ up_out = <<>>
    /\ rag_chunks = <<>>

\* No metric is being computed.
MetricsIdle ==
    /\ met_in = <<>>
    /\ met_out = <<>>

\* No summarization request has been made.
PipelineIdle ==
    /\ documents_db = <<>>
    /\ pc = [r \in Reqs |-> "new"]
    /\ doc_of = [r \in Reqs |-> None]
    /\ state = [r \in Reqs |-> NoState]
    /\ calls = [r \in Reqs |-> <<>>]
    /\ completed = [r \in Reqs |-> <<>>]
    /\ synth = [r \in Reqs |-> NoSynth]

Init ==
    /\ \E n \in 0..MaxChunks : documents_db = [d \in {DocId} |-> UploadedRecord(n)]
    /\ pc = [r \in Reqs |-> "new"]
    /\ doc_of = [r \in Reqs |-> None]
    /\ state = [r \in Reqs |-> NoState]
    /\ calls = [r \in Reqs |-> <<>>]
    /\ completed = [r \in Reqs |-> <<>>]
    /\ synth = [r \in Reqs |-> NoSynth]
    /\ ChunkerIdle
    /\ UploadIdle
    /\ MetricsIdle

\* ------------------------------------------------------------- actions
\* POST /summarize up to the await of graph.ainvoke.  Requests are numbered
\* in the order they arrive.
Request(r, id) ==
    /\ pc[r] = "new"
    /\ r > 1 => pc[r - 1] # "new"
    /\ doc_of' = [doc_of EXCEPT ![r] = id]
    /\ IF id \notin DOMAIN documents_db
       THEN /\ pc' = [pc EXCEPT ![r] = "http404"]
            /\ UNCHANGED state
       ELSE IF Truthy(documents_db[id].summary)
       THEN /\ pc' = [pc EXCEPT ![r] = "cached"]
            /\ UNCHANGED state
       ELSE /\ pc' = [pc EXCEPT ![r] = "distribute"]
            /\ state' = [state EXCEPT ![r] = InitialState(id, documents_db[id])]
    /\ UNCHANGED <<documents_db, calls, completed, synth, chunkerVars, uploadVars, metricVars>>

\* Node "distribute".
DistributeChunks(r) ==
    /\ pc[r] = "distribute"
    /\ state' = [state EXCEPT ![r] = distribute_chunks(state[r])]
    /\ pc' = [pc EXCEPT ![r] = "map"]
    /\ UNCHANGED <<documents_db, doc_of, calls, completed, synth, chunkerVars, uploadVars, metricVars>>

\* Node "map_summarize" up to the await: one task per chunk, all issued.
MapIssue(r) ==
    /\ pc[r] = "map"
    /\ calls' = [calls EXCEPT ![r] = [k \in 1..Len(state[r].large_chunks) |-> "pending"]]
    /\ pc' = [pc EXCEPT ![r] = "gather"]
    /\ UNCHANGED <<documents_db, doc_of, state, completed, synth, chunkerVars, uploadVars, metricVars>>

\* One summarization call returns.  A task gather started keeps running
\* after gather has raised; its completion order matters to nobody then.
CallReturn(r, i) ==
    /\ i \in DOMAIN calls[r]
    /\ calls[r][i] = "pending"
    /\ calls' = [calls EXCEPT ![r][i] = "returned"]
    /\ completed' = [completed EXCEPT ![r] =
                        IF pc[r] = "gather" THEN Append(@, i) ELSE @]
    /\ UNCHANGED <<documents_db, pc, doc_of, state, synth, chunkerVars, uploadVars, metricVars>>

\* One summarization call fails.
CallFail(r, i) ==
    /\ i \in DOMAIN calls[r]
    /\ calls[r][i] = "pending"
    /\ calls' = [calls EXCEPT ![r][i] = "failed"]
    /\ UNCHANGED <<documents_db, pc, doc_of, state, completed, synth, chunkerVars, uploadVars, metricVars>>

\* gather returns: the rest of map_summarize.
MapJoin(r) ==
    /\ pc[r] = "gather"
    /\ GatherReturns(calls[r])
    /\ state' = [state EXCEPT ![r] =
                    map_commit(@, GatherResults(@.large_chunks, @.total_chunks,
                                                completed[r]))]
    /\ pc' = [pc EXCEPT ![r] = "reduce"]
    /\ UNCHANGED <<documents_db, doc_of, calls, completed, synth, chunkerVars, uploadVars, metricVars>>

\* gather raises: map_summarize, the graph and ainvoke raise, the handler's
\* except clause runs.  The pipeline state is not written.
MapRaiseRetries(r) ==
    /\ pc[r] = "gather"
    /\ GatherRaises(calls[r])
    /\ calls' = [calls EXCEPT ![r] =
                    [i \in DOMAIN @ |-> IF @[i] = "failed" THEN "pending" ELSE @[i]]]
    /\ UNCHANGED <<documents_db, pc, doc_of, state, completed, synth,
                   chunkerVars, uploadVars, metricVars>>
MapRaise(r) ==
    /\ pc[r] = "gather"
    /\ GatherRaises(calls[r])
    /\ documents_db' = HandlerExcept(documents_db, doc_of[r])
    /\ pc' = [pc EXCEPT ![r] = "http500"]
    /\ completed' = [completed EXCEPT ![r] = <<>>]
    /\ UNCHANGED <<doc_of, state, calls, synth, chunkerVars, uploadVars, metricVars>>

\* Node "reduce_synthesize", the synthesis call answering.
ReduceSynthesize(r, content) ==
    /\ pc[r] = "reduce"
    /\ synth' = [synth EXCEPT ![r] =
                    [st |-> "ok", sections |-> SynthInput(state[r]).sections,
                     section_count |-> SynthInput(state[r]).section_count,
                     content |-> content]]
    /\ state' = [state EXCEPT ![r] = reduce_commit(@, content)]
    /\ pc' = [pc EXCEPT ![r] = "store"]
    /\ completed' = [completed EXCEPT ![r] = <<>>]
    /\ UNCHANGED <<documents_db, doc_of, calls, chunkerVars, uploadVars, metricVars>>

\* Node "reduce_synthesize", the synthesis call failing: the handler's
\* except clause runs.
ReduceRaise(r) ==
    /\ pc[r] = "reduce"
    /\ synth' = [synth EXCEPT ![r] =
                    [st |-> "failed", sections |-> SynthInput(state[r]).sections,
                     section_count |-> SynthInput(state[r]).section_count,
                     content |-> ""]]
    /\ documents_db' = HandlerExcept(documents_db, doc_of[r])
    /\ pc' = [pc EXCEPT ![r] = "http500"]
    /\ completed' = [completed EXCEPT ![r] = <<>>]
    /\ UNCHANGED <<doc_of, state, calls, chunkerVars, uploadVars, metricVars>>

\* graph.ainvoke has returned final_state: store the summary, HTTP 200.
StoreSummary(r) ==
    /\ pc[r] = "store"
    /\ documents_db' = HandlerStore(documents_db, doc_of[r], state[r])
    /\ pc' = [pc EXCEPT ![r] = "http200"]
    /\ UNCHANGED <<doc_of, state, calls, completed, synth, chunkerVars, uploadVars, metricVars>>

Next ==
    \E r \in Reqs :
        \/ \E id \in DocIds : Request(r, id)
        \/ DistributeChunks(r)
        \/ MapIssue(r)
        \/ \E i \in 1..MaxChunks : CallReturn(r, i)
        \/ \E i \in 1..MaxChunks : CallFail(r, i)
        \/ MapJoin(r)
        \/ MapRaise(r)
        \/ \E content \in SynthContents : ReduceSynthesize(r, content)
        \/ ReduceRaise(r)
        \/ StoreSummary(r)

Spec == Init /\ [][Next]_vars

\* ------------------------------------------------------------- cancellation
\* task.cancel() on the handler's task while it awaits graph.ainvoke.
\* CancelledError is a BaseException: the handler's `except Exception` does
\* not catch it, and neither the pipeline state nor the record is written.

\* No cancel() has reached r's map calls.
NoneCancelled(r) == \A i \in DOMAIN calls[r] : calls[r][i] # "cancelled"

\* cancel() while map_summarize awaits a gather that is not done: gather
\* cancels every call still pending.  The handler is resumed in a later
\* iteration of the event loop.  With a call failed already, this is the
\* cancel() that arrives before gather has seen the failure.
CancelMap(r) ==
    /\ pc[r] = "gather"
    /\ NoneCancelled(r)
    /\ \E i \in DOMAIN calls[r] : calls[r][i] = "pending"
    /\ calls' = [calls EXCEPT ![r] =
                    [i \in DOMAIN @ |-> IF @[i] = "pending" THEN "cancelled" ELSE @[i]]]
    /\ UNCHANGED <<documents_db, pc, doc_of, state, completed, synth,
                   chunkerVars, uploadVars, metricVars>>

\* The handler resumes after CancelMap with no call failed: gather raises
\* CancelledError, which leaves the node, the graph and the handler.
MapCancelled(r) ==
    /\ pc[r] = "gather"
    /\ ~NoneCancelled(r)
    /\ ~GatherRaises(calls[r])
    /\ pc' = [pc EXCEPT ![r] = "cancelled"]
    /\ completed' = [completed EXCEPT ![r] = <<>>]
    /\ UNCHANGED <<documents_db, doc_of, state, calls, synth,
                   chunkerVars, uploadVars, metricVars>>

\* cancel() while map_summarize awaits a gather that is done, by a failure
\* or with every call finished or cancelled, and the handler not yet
\* resumed: there is nothing for gather to cancel, the task gets
\* CancelledError in place of gather's outcome, and a call still pending
\* stays pending.  It may be a second cancel(), after one that cancelled
\* the pending calls.
CancelSettled(r) ==
    /\ pc[r] = "gather"
    /\ \/ GatherRaises(calls[r])
       \/ \A i \in DOMAIN calls[r] : calls[r][i] # "pending"
    /\ pc' = [pc EXCEPT ![r] = "cancelled"]
    /\ completed' = [completed EXCEPT ![r] = <<>>]
    /\ UNCHANGED <<documents_db, doc_of, state, calls, synth,
                   chunkerVars, uploadVars, metricVars>>

\* cancel() while the handler awaits graph.ainvoke and the graph is not in
\* the map stage's gather: before distribute_chunks, before map_summarize,
\* before reduce_synthesize, or after it with the final state not yet
\* handed back to the handler.  The run ends where it stands; a summary
\* already synthesized is not stored.
CancelAwait(r) ==
    /\ pc[r] \in {"distribute", "map", "reduce", "store"}
    /\ pc' = [pc EXCEPT ![r] = "cancelled"]
    /\ completed' = [completed EXCEPT ![r] = <<>>]
    /\ UNCHANGED <<documents_db, doc_of, state, calls, synth,
                   chunkerVars, uploadVars, metricVars>>

NextCancel ==
    \/ Next
    \/ \E r \in Reqs : CancelMap(r)
    \/ \E r \in Reqs : MapCancelled(r)
    \/ \E r \in Reqs : CancelSettled(r)
    \/ \E r \in Reqs : CancelAwait(r)

SpecCancel == Init /\ [][NextCancel]_vars

\* ------------------------------------------------------------- progress
\* A step of r's run once it is requested: the event loop runs every ready
\* coroutine, and every call to the model returns or fails.
RunStep(r) ==
    \/ DistributeChunks(r)
    \/ MapIssue(r)
    \/ \E i \in 1..MaxChunks : CallReturn(r, i)
    \/ \E i \in 1..MaxChunks : CallFail(r, i)
    \/ MapJoin(r)
    \/ MapRaise(r)
    \/ \E content \in SynthContents : ReduceSynthesize(r, content)
    \/ ReduceRaise(r)
    \/ StoreSummary(r)

SpecLive == Init /\ [][Next]_vars /\ \A r \in Reqs : WF_vars(RunStep(r))

\* ------------------------------------------------------------- a chunking pass
\* Texts of exactly n characters, and of at most n.
TextsOfLen(n) == [1..n -> Alphabet]
TextsUpTo(n) == UNION {TextsOfLen(k) : k \in 0..n}

\* Page texts: at most p pages of at most n characters together.
RECURSIVE PageTexts(_, _)
PageTexts(p, n) ==
    IF p = 0 THEN {<<>>}
    ELSE {<<>>} \cup
         UNION {{<<t>> \o rest : rest \in PageTexts(p - 1, n - Len(t))} :
                    t \in TextsUpTo(n)}

\* pages_data as extract_pdf_text numbers it: page_number is 1-indexed.
PagesData(texts) == [k \in 1..Len(texts) |-> [page_number |-> k, text |-> texts[k]]]

PageInputs == {PagesData(ts) : ts \in PageTexts(MaxPages, MaxTextLen)}

\* The sizes a splitter accepts here: 0 <= chunk_overlap < chunk_size.
SplitParams ==
    {sz \in (1..MaxChunkSize) \X (0..MaxChunkSize) : sz[2] < sz[1]}

ChunkInit ==
    /\ PipelineIdle
    /\ UploadIdle
    /\ MetricsIdle
    /\ ck_pc = "pages"
    /\ \E pages \in PageInputs, sz \in SplitParams, kind \in {"rag", "summary"},
          id \in DocIds :
           ck_in = [pages_data |-> pages, chunk_size |-> sz[1],
                    chunk_overlap |-> sz[2], document_id |-> id, kind |-> kind]
    /\ full_text = <<>>
    /\ page_markers = <<>>
    /\ segments = <<>>
    /\ chunk_dicts = <<>>
    /\ chunk_starts = <<>>
    /\ current_position = 0

\* One iteration of the page loop.
AddPage ==
    /\ ck_pc = "pages"
    /\ Len(page_markers) < Len(ck_in.pages_data)
    /\ LET page == ck_in.pages_data[Len(page_markers) + 1]
       IN  /\ full_text' = AddPageText(full_text, page)
           /\ page_markers' = Append(page_markers, PageMarker(full_text, page))
    /\ UNCHANGED <<ck_pc, ck_in, segments, chunk_dicts, chunk_starts,
                   current_position, pipelineVars, uploadVars, metricVars>>

\* The splitter is constructed after the last page; its constructor accepts
\* every chunk_overlap up to chunk_size.  Then splitter.split_text(full_text).
SplitBuffer ==
    /\ ck_pc = "pages"
    /\ Len(page_markers) = Len(ck_in.pages_data)
    /\ ck_in.chunk_overlap <= ck_in.chunk_size
    /\ segments' = SplitText(full_text, ck_in.chunk_size, ck_in.chunk_overlap)
    /\ ck_pc' = "chunks"
    /\ UNCHANGED <<ck_in, full_text, page_markers, chunk_dicts, chunk_starts,
                   current_position, pipelineVars, uploadVars, metricVars>>

\* One iteration of the chunk loop.
AttributeChunk ==
    /\ ck_pc = "chunks"
    /\ Len(chunk_dicts) < Len(segments)
    /\ LET a == Attribute(ck_in.kind, full_text, page_markers,
                          segments[Len(chunk_dicts) + 1].text, Len(chunk_dicts),
                          current_position, ck_in.document_id)
       IN  /\ chunk_dicts' = Append(chunk_dicts, a.chunk)
           /\ chunk_starts' = Append(chunk_starts, a.chunk_start)
           /\ current_position' = a.cursor
    /\ UNCHANGED <<ck_pc, ck_in, full_text, page_markers, segments,
                   pipelineVars, uploadVars, metricVars>>

\* return chunk_dicts
ReturnChunks ==
    /\ ck_pc = "chunks"
    /\ Len(chunk_dicts) = Len(segments)
    /\ ck_pc' = "returned"
    /\ UNCHANGED <<ck_in, full_text, page_markers, segments, chunk_dicts,
                   chunk_starts, current_position, pipelineVars, uploadVars, metricVars>>

ChunkNext ==
    \/ AddPage
    \/ SplitBuffer
    \/ AttributeChunk
    \/ ReturnChunks

SpecChunk == ChunkInit /\ [][ChunkNext]_vars

\* ------------------------------------------------------------- a pass that may raise
\* Any pair of sizes, valid or not.
AnyParams == (1..MaxChunkSize) \X (0..MaxChunkSize)

ChunkInitAny ==
    /\ PipelineIdle
    /\ UploadIdle
    /\ MetricsIdle
    /\ ck_pc = "pages"
    /\ \E pages \in PageInputs, sz \in AnyParams, kind \in {"rag", "summary"} :
           ck_in = [pages_data |-> pages, chunk_size |-> sz[1],
                    chunk_overlap |-> sz[2], document_id |-> DocId, kind |-> kind]
    /\ full_text = <<>>
    /\ page_markers = <<>>
    /\ segments = <<>>
    /\ chunk_dicts = <<>>
    /\ chunk_starts = <<>>
    /\ current_position = 0

\* The splitter's constructor raises ValueError: chunk_overlap is larger
\* than chunk_size.  The pass ends with the exception.
SplitterRejects ==
    /\ ck_pc = "pages"
    /\ Len(page_markers) = Len(ck_in.pages_data)
    /\ ck_in.chunk_overlap > ck_in.chunk_size
    /\ ck_pc' = "config_error"
    /\ UNCHANGED <<ck_in, full_text, page_markers, segments, chunk_dicts,
                   chunk_starts, current_position, pipelineVars, uploadVars, metricVars>>

\* count_tokens(chunk_text) raises while the dictionary of the next chunk is
\* built: nothing catches it, the pass ends with the exception and the
\* dictionaries built so far are lost with the frame.
CountTokensRaises ==
    /\ ck_pc = "chunks"
    /\ Len(chunk_dicts) < Len(segments)
    /\ ck_pc' = "token_error"
    /\ UNCHANGED <<ck_in, full_text, page_markers, segments, chunk_dicts,
                   chunk_starts, current_position, pipelineVars, uploadVars, metricVars>>

ChunkErrNext ==
    \/ ChunkNext
    \/ SplitterRejects
    \/ CountTokensRaises

SpecChunkErr == ChunkInitAny /\ [][ChunkErrNext]_vars

\* ------------------------------------------------------------- claims
\* Number of summary chunks of the run of request r.
NChunks(r) == Len(state[r].large_chunks)

\* The map stage of r's run has seen a call fail.
MapFailed(r) == \E i \in DOMAIN calls[r] : calls[r][i] = "failed"

\* r's run is between the creation of its state and the end of its handler.
InFlight(r) == pc[r] \in {"distribute", "map", "gather", "reduce", "store"}

\* The steps the status may take: creation, the chain, and error from
\* mapping or reducing.
StatusSteps ==
    {<<"none", "distributing">>, <<"distributing", "mapping">>,
     <<"mapping", "reducing">>, <<"reducing", "complete">>,
     <<"mapping", "error">>, <<"reducing", "error">>}

\* C1: in every run the status moves only along distributing -> mapping ->
\* reducing -> complete, one step at a time; error is entered only from
\* mapping or reducing; complete and error are never left.
C1_StatusMoves ==
    [][\A r \in Reqs :
          state'[r].status # state[r].status
              => <<state[r].status, state'[r].status>> \in StatusSteps]_vars

\* C1 witness: a run has gone through the whole chain.
C1_Witness == \E r \in Reqs : state[r].status = "complete" /\ NChunks(r) >= 1

\* C2: when the map stage has succeeded, chunk_summaries has one entry per
\* chunk, entry k is the answer of the call made for chunk k (section k of
\* N), summaries_completed is N and the status is reducing, whatever the
\* order in which the calls completed.
C2_MapIndexAligned ==
    \A r \in Reqs :
        pc[r] = "reduce" =>
            /\ Len(state[r].chunk_summaries) = NChunks(r)
            /\ \A k \in 1..NChunks(r) :
                   state[r].chunk_summaries[k] = SummarizeSection(k, NChunks(r))
            /\ state[r].summaries_completed = NChunks(r)
            /\ state[r].status = "reducing"

\* C2 witness: the map stage succeeded although a later chunk's call
\* completed before an earlier chunk's.
C2_Witness ==
    \E r \in Reqs :
        /\ pc[r] = "reduce"
        /\ state[r].status = "reducing"
        /\ Len(completed[r]) >= 2
        /\ completed[r][1] > completed[r][2]

\* C3 (as claimed): the map stage has not finished, into reducing or into
\* an error, while one of its calls is still outstanding.
C3_JoinBarrier ==
    \A r \in Reqs :
        pc[r] \in {"reduce", "store", "http200", "http500"}
            => \A i \in DOMAIN calls[r] : calls[r][i] # "pending"

\* C4 (as claimed): a run whose map stage saw a call fail ends with status
\* error and error_message set.
C4_MapFailureRecorded ==
    \A r \in Reqs :
        (pc[r] = "http500" /\ MapFailed(r))
            => state[r].status = "error" /\ state[r].error_message # None

\* C5: once a call of the map stage of a run has failed, the reduce stage of
\* that run is never invoked, the run never stores a summary (its steps
\* leave the document's stored summary as it is), and a run that did store
\* one had every one of its calls return.
C5_NoPartialSummary ==
    [][\A r \in Reqs :
          /\ MapFailed(r)' =>
                /\ synth'[r].st = "none"
                /\ pc'[r] \notin {"reduce", "store", "http200"}
                /\ pc'[r] # pc[r] =>
                       documents_db'[DocId].summary = documents_db[DocId].summary
          /\ pc'[r] = "http200" =>
                /\ GatherReturns(calls'[r])
                /\ synth'[r].section_count = NChunks(r)']_vars

\* C5 witness: a run ended in HTTP 500 with one call failed and another
\* returned.
C5_Witness ==
    \E r \in Reqs :
        /\ pc[r] = "http500"
        /\ MapFailed(r)
        /\ \E i \in DOMAIN calls[r] : calls[r][i] = "returned"
        /\ documents_db[DocId].summary = None

\* C6: the synthesis call is given exactly N sections labelled 1..N in
\* ascending order, section k carrying chunk_summaries[k], and a section
\* count of N; when it answers, final_summary is its answer and the status
\* is complete.
C6_ReduceSections ==
    \A r \in Reqs :
        synth[r].st # "none" =>
            /\ Len(synth[r].sections) = NChunks(r)
            /\ \A k \in 1..NChunks(r) :
                   /\ synth[r].sections[k].label = k
                   /\ synth[r].sections[k].text = state[r].chunk_summaries[k]
            /\ synth[r].section_count = NChunks(r)
            /\ synth[r].st = "ok" =>
                   /\ state[r].final_summary = synth[r].content
                   /\ state[r].status = "complete"

\* C6 witness: a synthesis over at least two sections has answered.
C6_Witness ==
    \E r \in Reqs :
        /\ synth[r].st = "ok"
        /\ Len(synth[r].sections) >= 2
        /\ state[r].status = "complete"

\* C7 (as claimed, for a run over at least one chunk): a run whose
\* synthesis call failed ends with status error and error_message set,
\* final_summary still empty, the chunk summaries of map still in the state,
\* and nothing stored by it.
C7_ReduceFailureRecorded ==
    \A r \in Reqs :
        (synth[r].st = "failed" /\ NChunks(r) >= 1) =>
            /\ state[r].status = "error"
            /\ state[r].error_message # None
            /\ state[r].final_summary = ""
            /\ Len(state[r].chunk_summaries) = NChunks(r)
            /\ pc[r] # "http200"

\* C8 (as claimed): a run started with no summary chunks never reaches
\* mapping: no map or reduce stage runs for it.
C8_EmptyRejected ==
    \A r \in Reqs :
        (state[r].status # "none" /\ NChunks(r) = 0)
            => /\ state[r].status \notin {"mapping", "reducing", "complete"}
               /\ synth[r].st = "none"

\* C9 (as claimed, read in the claim's favour: "later" is after the earlier
\* request got its 200 response, and that run had chunks to summarize): a
\* request for a document one of whose runs completed is answered from the
\* stored summary, without a new run.
C9_CompleteIsCached ==
    [][\A r \in Reqs :
          (/\ pc[r] = "new"
           /\ pc'[r] # "new"
           /\ doc_of'[r] = DocId
           /\ \E q \in Reqs : /\ pc[q] = "http200"
                               /\ doc_of[q] = DocId
                               /\ NChunks(q) >= 1)
              => pc'[r] = "cached"]_vars

\* C10 (as claimed): no two runs are in flight for the same document.
C10_OneRunPerDocument ==
    \A r, q \in Reqs :
        (r # q /\ InFlight(r) /\ InFlight(q)) => doc_of[r] # doc_of[q]

\* ------------------------------------------------------------- uploads
\* The (chunk_size, chunk_overlap) pairs the settings take here: a smaller
\* size without overlap and a larger one with overlap, as the defaults of
\* config.py are (1000, 100) and (15000, 500).
SettingPairs == {<<MaxChunkSize - 1, 0>>, <<MaxChunkSize, 1>>}

Settings(rag, summary) ==
    [rag_chunk_size |-> rag[1], rag_chunk_overlap |-> rag[2],
     summary_chunk_size |-> summary[1], summary_chunk_overlap |-> summary[2]]

RagPair(s) == <<s.rag_chunk_size, s.rag_chunk_overlap>>
SummaryPair(s) == <<s.summary_chunk_size, s.summary_chunk_overlap>>

UploadInit ==
    /\ PipelineIdle
    /\ ChunkerIdle
    /\ UploadIdle
    /\ MetricsIdle

\* uuid.uuid4() (line 46): an id no earlier upload was given.
UploadIds == {"u1", "u2"}
FreshIds == UploadIds \ DOMAIN documents_db

\* The record kept for an upload (lines 97-108), without the file's name,
\* path, metadata and the time.
UploadRecord(id, out) ==
    [document_id |-> id,
     rag_chunks_count |-> Len(out.rag_chunks),
     summary_chunks_count |-> Len(out.summary_chunks),
     summary_chunks |-> out.summary_chunks,
     status |-> "uploaded",
     summary |-> None]

\* A pass is entered with its arguments; its buffer, markers, chunk list and
\* cursor are new (chunker.py:32-33, 56 and 104-105, 128).
EnterPassKeepsCursor(args) ==
    /\ ck_pc' = "pages"
    /\ ck_in' = args
    /\ full_text' = <<>>
    /\ page_markers' = <<>>
    /\ segments' = <<>>
    /\ chunk_dicts' = <<>>
    /\ chunk_starts' = <<>>
    /\ UNCHANGED current_position
EnterPass(args) ==
    /\ ck_pc' = "pages"
    /\ ck_in' = args
    /\ full_text' = <<>>
    /\ page_markers' = <<>>
    /\ segments' = <<>>
    /\ chunk_dicts' = <<>>
    /\ chunk_starts' = <<>>
    /\ current_position' = 0

\* The handler has returned: no pass is left.
LeavePasses ==
    /\ ck_pc' = "idle"
    /\ ck_in' = <<>>
    /\ full_text' = <<>>
    /\ page_markers' = <<>>
    /\ segments' = <<>>
    /\ chunk_dicts' = <<>>
    /\ chunk_starts' = <<>>
    /\ current_position' = 0

\* An upload is in the pass of this kind, which has returned its chunks.
PassReturned(kind) ==
    /\ Len(up_in) = Len(up_out) + 1
    /\ ck_pc = "returned"
    /\ ck_in.kind = kind

\* upload_document up to its call of create_rag_chunks: the new id, the
\* cleaned pages, the settings.  up_in lists what each upload was given;
\* up_out what each upload that stored its record had produced.  The pass
\* itself is AddPage, SplitBuffer, AttributeChunk and ReturnChunks.
UploadRun(pages, settings, id) ==
    /\ Len(up_in) = Len(up_out)
    /\ ck_pc = "idle"
    /\ up_in' = Append(up_in, [pages_data |-> pages, settings |-> settings,
                               document_id |-> id])
    /\ EnterPass(PassArgs("rag", pages, settings, id))
    /\ UNCHANGED <<up_out, rag_chunks, pipelineVars, metricVars>>

\* rag_chunks = create_rag_chunks(...) has returned; create_summary_chunks
\* is called on the same pages under the same id.
UploadSummaryPass ==
    /\ PassReturned("rag")
    /\ rag_chunks' = chunk_dicts
    /\ EnterPass(PassArgs("summary", ck_in.pages_data,
                          up_in[Len(up_in)].settings, ck_in.document_id))
    /\ UNCHANGED <<up_in, up_out, pipelineVars, metricVars>>

\* summary_chunks = create_summary_chunks(...) has returned, the embeddings
\* are stored, and the record is written under the new id.
UploadStore ==
    /\ PassReturned("summary")
    /\ LET out == [rag_chunks |-> rag_chunks, summary_chunks |-> chunk_dicts]
           id == ck_in.document_id
       IN  /\ up_out' = Append(up_out, out)
           /\ documents_db' =
                  [d \in DOMAIN documents_db \cup {id} |->
                      IF d = id THEN UploadRecord(id, out) ELSE documents_db[d]]
    /\ rag_chunks' = <<>>
    /\ LeavePasses
    /\ UNCHANGED <<up_in, pc, doc_of, state, calls, completed, synth, metricVars>>

\* Something inside the handler's try raises: count_tokens at a chunk of
\* either pass (chunker.py:73, 146, no try there), or generate_embeddings
\* or the vector store after both passes.  The except clause removes the
\* file and answers 500; no record is written and the upload leaves
\* nothing behind.
UploadRaise ==
    /\ Len(up_in) = Len(up_out) + 1
    /\ \/ ck_pc = "chunks" /\ Len(chunk_dicts) < Len(segments)
       \/ PassReturned("summary")
    /\ up_in' = SubSeq(up_in, 1, Len(up_in) - 1)
    /\ rag_chunks' = <<>>
    /\ LeavePasses
    /\ UNCHANGED <<up_out, pipelineVars, metricVars>>

\* A first upload, of any pages under any settings.
Upload ==
    /\ up_in = <<>>
    /\ \E pages \in PageInputs, rag \in SettingPairs, summary \in SettingPairs,
          id \in FreshIds :
           UploadRun(pages, Settings(rag, summary), id)

\* A second upload of the same pages, only the summary settings changed.
UploadSummaryChanged ==
    /\ Len(up_in) = 1
    /\ \E summary \in SettingPairs \ {SummaryPair(up_in[1].settings)},
          id \in FreshIds :
           UploadRun(up_in[1].pages_data,
                     Settings(RagPair(up_in[1].settings), summary), id)

\* A second upload of the same pages, only the retrieval settings changed.
UploadRagChanged ==
    /\ Len(up_in) = 1
    /\ \E rag \in SettingPairs \ {RagPair(up_in[1].settings)},
          id \in FreshIds :
           UploadRun(up_in[1].pages_data,
                     Settings(rag, SummaryPair(up_in[1].settings)), id)

NextUpload ==
    \/ Upload
    \/ UploadSummaryChanged
    \/ UploadRagChanged
    \/ AddPage
    \/ SplitBuffer
    \/ AttributeChunk
    \/ ReturnChunks
    \/ UploadSummaryPass
    \/ UploadStore
    \/ UploadRaise

SpecUpload == UploadInit /\ [][NextUpload]_vars

\* ------------------------------------------------------------- claims C11-C20
\* C11 (as claimed): once a run is cancelled during the map stage, none of
\* its map calls is outstanding, its status is error or a cancelled one,
\* and no reduce has run for it.
C11_CancelledRunInError ==
    \A r \in Reqs :
        (/\ pc[r] = "cancelled"
         /\ calls[r] # <<>>
         /\ state[r].status \notin {"reducing", "complete"})
            => /\ \A i \in DOMAIN calls[r] : calls[r][i] # "pending"
               /\ synth[r].st = "none"
               /\ state[r].status \in {"error", "cancelled"}

\* The pass has left the page loop.
PagesConsolidated == ck_pc \in {"chunks", "returned"}

\* C12: the page markers are in input page order, the first starts at
\* offset 0, each ends where the next starts, and the last ends at the
\* length of the buffer.
C12_MarkersContiguous ==
    /\ Len(page_markers) <= Len(ck_in.pages_data)
    /\ PagesConsolidated => Len(page_markers) = Len(ck_in.pages_data)
    /\ \A k \in 1..Len(page_markers) :
           page_markers[k].page_number = ck_in.pages_data[k].page_number
    /\ page_markers # <<>> =>
           /\ page_markers[1].start_pos = 0
           /\ page_markers[Len(page_markers)].end_pos = Len(full_text)
    /\ \A k \in 1..(Len(page_markers) - 1) :
           page_markers[k].end_pos = page_markers[k + 1].start_pos

C12_Witness ==
    /\ PagesConsolidated
    /\ Len(page_markers) = 2
    /\ \A k \in 1..2 : ck_in.pages_data[k].text # <<>>

\* C13 (as claimed): a marker's range is the page's own text, the separator
\* left out of it.
C13_MarkerCoversOwnText ==
    \A k \in 1..Len(page_markers) :
        /\ page_markers[k].end_pos - page_markers[k].start_pos
               = Len(ck_in.pages_data[k].text)
        /\ Slice(full_text, page_markers[k].start_pos, page_markers[k].end_pos)
               = ck_in.pages_data[k].text

\* C13 (amended): a marker's range is the page's text followed by the
\* two-newline separator: end - start is the length of the text plus 2.
C13_MarkerCoversTextAndSeparator ==
    \A k \in 1..Len(page_markers) :
        /\ page_markers[k].end_pos - page_markers[k].start_pos
               = Len(ck_in.pages_data[k].text) + 2
        /\ Slice(full_text, page_markers[k].start_pos, page_markers[k].end_pos)
               = ck_in.pages_data[k].text \o <<NL, NL>>

C13_Witness ==
    /\ Len(page_markers) >= 1
    /\ ck_in.pages_data[Len(page_markers)].text # <<>>
    /\ Len(full_text) = page_markers[Len(page_markers)].end_pos

\* The segments joined in order, each without the part it shares with the
\* segments before it.
RECURSIVE StripOverlaps(_, _)
StripOverlaps(segs, prev_end) ==
    IF segs = <<>> THEN <<>>
    ELSE LET s == Head(segs)
             seg_end == s.start + Len(s.text)
             shared == IF prev_end <= s.start THEN 0
                       ELSE IF prev_end >= seg_end THEN Len(s.text)
                       ELSE prev_end - s.start
         IN  SubSeq(s.text, shared + 1, Len(s.text))
                 \o StripOverlaps(Tail(segs),
                                  IF seg_end > prev_end THEN seg_end ELSE prev_end)

\* Some page has a character that is not whitespace.
HasContent(pages) ==
    \E k \in 1..Len(pages) : \E i \in 1..Len(pages[k].text) :
        ~IsSpace(pages[k].text[i])

\* C14 (as claimed): the segments, each without the part it shares with
\* its predecessor, concatenate to exactly the buffer.  Stated for pages
\* with content, where the splitter does return segments.
C14_SegmentsReconstructBuffer ==
    (PagesConsolidated /\ HasContent(ck_in.pages_data))
        => StripOverlaps(segments, 0) = full_text

\* C15: every segment is non-empty and no longer than the target size.
C15_SegmentsWithinSize ==
    PagesConsolidated =>
        \A k \in 1..Len(segments) :
            /\ segments[k].text # <<>>
            /\ Len(segments[k].text) <= ck_in.chunk_size

\* A text longer than the target size with no separator but "" in it.
C15_Witness ==
    /\ PagesConsolidated
    /\ \E k \in 1..Len(ck_in.pages_data) :
           /\ Len(ck_in.pages_data[k].text) > ck_in.chunk_size
           /\ \A i \in 1..Len(ck_in.pages_data[k].text) :
                  ~IsSpace(ck_in.pages_data[k].text[i])
    /\ Len(segments) >= 2

\* The chunks attributed so far, and the span the search gave chunk k.
Attributed == 1..Len(chunk_dicts)
SpanStart(k) == chunk_starts[k]
SpanEnd(k) == chunk_starts[k] + Len(chunk_dicts[k].text)

\* C16 (as claimed, for the chunks the search found): the offset the forward
\* search gives a chunk is the offset the splitter drew the segment from, and
\* the chunk's page_numbers are the pages of that span.
C16_SearchFindsTrueSpan ==
    \A k \in Attributed :
        SpanStart(k) # -1 =>
            /\ SpanStart(k) = segments[k].start
            /\ chunk_dicts[k].page_numbers
                   = PageNumbers(page_markers, segments[k].start,
                                 segments[k].start + Len(segments[k].text))

\* C17: page_numbers lists, in marker order, exactly the pages whose marker
\* passes the half-open overlap test against the span the search gave the
\* chunk; a non-empty span inside the range of one page has that page alone.
C17_PageNumbersAreOverlaps ==
    \A k \in Attributed :
        LET pn == chunk_dicts[k].page_numbers
        IN  /\ \A j \in 1..Len(page_markers) :
                   (\E i \in 1..Len(pn) : pn[i] = page_markers[j].page_number)
                       <=> (/\ SpanStart(k) < page_markers[j].end_pos
                            /\ SpanEnd(k) > page_markers[j].start_pos)
            /\ \A i \in 1..(Len(pn) - 1) : pn[i] < pn[i + 1]
            /\ \A j \in 1..Len(page_markers) :
                   (/\ page_markers[j].start_pos <= SpanStart(k)
                    /\ SpanEnd(k) <= page_markers[j].end_pos)
                       => pn = <<page_markers[j].page_number>>

\* A chunk whose span runs across the boundary of two pages.
C17_Witness ==
    /\ Len(page_markers) = 2
    /\ \E k \in Attributed :
           /\ SpanStart(k) >= 0
           /\ chunk_dicts[k].page_numbers = <<1, 2>>

\* C18 (as claimed): a chunk whose text the search did not find has an empty
\* page_numbers, a null primary page (retrieval) and the fallback page_range
\* (summary).
C18_MissDegrades ==
    \A k \in Attributed :
        SpanStart(k) = -1 =>
            /\ chunk_dicts[k].page_numbers = <<>>
            /\ ck_in.kind = "rag" => chunk_dicts[k].page_number = None
            /\ ck_in.kind = "summary" => chunk_dicts[k].page_range = PageRange(<<>>)

\* C20 (as claimed): a pass over an empty page sequence never returns a
\* chunk collection.
C20_EmptyPagesRaise ==
    ck_in.pages_data = <<>> => ck_pc # "returned"

\* The chunks cs as they would be under document id `id`.
WithDocId(cs, id) == [k \in 1..Len(cs) |-> [cs[k] EXCEPT !.document_id = id]]

\* C19: of two uploads of the same pages, the retrieval chunks are the same
\* if the retrieval settings are, and the summary chunks are the same if the
\* summary settings are.  Both passes of an upload, and the passes of the
\* next upload, go through the same chunking steps one after another; what
\* one pass leaves behind must not reach the next.  Every upload draws a
\* new document_id and writes it into each of its chunks, so the chunks of
\* one upload are compared with the other's under the same document_id.
C19_CollectionsIndependent ==
    \A a, b \in 1..Len(up_out) :
        up_in[a].pages_data = up_in[b].pages_data
            => /\ RagPair(up_in[a].settings) = RagPair(up_in[b].settings)
                      => WithDocId(up_out[a].rag_chunks, up_in[b].document_id)
                             = up_out[b].rag_chunks
               /\ SummaryPair(up_in[a].settings) = SummaryPair(up_in[b].settings)
                      => WithDocId(up_out[a].summary_chunks, up_in[b].document_id)
                             = up_out[b].summary_chunks

\* A second upload, under its own id, whose changed summary settings changed
\* the summary chunks stored for it and left retrieval chunks to compare.
C19_Witness ==
    /\ Len(up_out) = 2
    /\ up_in[1].document_id # up_in[2].document_id
    /\ RagPair(up_in[1].settings) = RagPair(up_in[2].settings)
    /\ WithDocId(up_out[1].summary_chunks, up_in[2].document_id)
           # up_out[2].summary_chunks
    /\ documents_db[up_in[2].document_id].summary_chunks = up_out[2].summary_chunks
    /\ up_out[1].rag_chunks # <<>>

\* ------------------------------------------------------------- retrieval_metrics.py
\* retrieved_ids[:k], as Python slices: a negative k counts from the end.
TopK(ids, k) ==
    IF k >= 0 THEN SubSeq(ids, 1, IF k < Len(ids) THEN k ELSE Len(ids))
    ELSE SubSeq(ids, 1, IF Len(ids) + k > 0 THEN Len(ids) + k ELSE 0)

\* sum(1 for doc_id in top_k if doc_id in relevant_ids): one per position.
RelevantInTopK(ids, relevant_ids, k) ==
    Cardinality({i \in DOMAIN TopK(ids, k) : TopK(ids, k)[i] \in relevant_ids})

\* A quotient of two integers, kept as the pair; 0.0 is 0 / 1.
Ratio(num, den) == [num |-> num, den |-> den]
Zero == Ratio(0, 1)

calculate_precision_at_k(retrieved_ids, relevant_ids, k) ==
    IF k <= 0 THEN Zero
    ELSE Ratio(RelevantInTopK(retrieved_ids, relevant_ids, k), k)

calculate_recall_at_k(retrieved_ids, relevant_ids, k) ==
    IF relevant_ids = {} THEN Zero
    ELSE Ratio(RelevantInTopK(retrieved_ids, relevant_ids, k),
               Cardinality(relevant_ids))

\* The ids of the metric calls: lists of at most MaxRetrieved ids,
\* duplicates included.
MetricIds == {"doc1", "doc2", "doc3"}
RetrievedLists == UNION {[1..n -> MetricIds] : n \in 0..MaxRetrieved}

MetricsInit ==
    /\ PipelineIdle
    /\ ChunkerIdle
    /\ UploadIdle
    /\ \E ids \in RetrievedLists, rel \in SUBSET MetricIds, k \in -1..MaxK :
           met_in = [retrieved_ids |-> ids, relevant_ids |-> rel, k |-> k]
    /\ met_out = <<>>

PrecisionAtK ==
    /\ met_out = <<>>
    /\ met_out' = [metric |-> "precision",
                   value |-> calculate_precision_at_k(met_in.retrieved_ids,
                                                      met_in.relevant_ids, met_in.k)]
    /\ UNCHANGED <<met_in, pipelineVars, chunkerVars, uploadVars>>

RecallAtK ==
    /\ met_out = <<>>
    /\ met_out' = [metric |-> "recall",
                   value |-> calculate_recall_at_k(met_in.retrieved_ids,
                                                   met_in.relevant_ids, met_in.k)]
    /\ UNCHANGED <<met_in, pipelineVars, chunkerVars, uploadVars>>

NextMetrics ==
    \/ PrecisionAtK
    \/ RecallAtK

SpecMetrics == MetricsInit /\ [][NextMetrics]_vars

\* ------------------------------------------------------------- claims C21-C30
\* C21 (as claimed): for chunk_overlap >= chunk_size no splitting is done
\* and no chunks are produced.
C21_OverlapAtLeastSizeRejected ==
    ck_in.chunk_overlap >= ck_in.chunk_size
        => /\ ck_pc \notin {"chunks", "returned"}
           /\ segments = <<>>
           /\ chunk_dicts = <<>>

\* C22 (as claimed): a failure of the token counter does not end the pass.
C22_TokenFailureTolerated ==
    ck_pc # "token_error"


\* Every chunk carries the pass's document_id and tag, and a summary chunk
\* has a page_range.
ChunksTagged ==
    \A k \in 1..Len(chunk_dicts) :
        /\ chunk_dicts[k].document_id = ck_in.document_id
        /\ chunk_dicts[k].chunk_type = ck_in.kind
        /\ ck_in.kind = "summary" => "page_range" \in DOMAIN chunk_dicts[k]

OnePageOfTargetSize ==
    /\ Len(ck_in.pages_data) = 1
    /\ ck_in.pages_data[1].page_number = 1
    /\ Len(ck_in.pages_data[1].text) = ck_in.chunk_size
    /\ ck_in.chunk_overlap = 0

\* The pass returned one chunk, of page 1.
OneChunkOfPageOne ==
    /\ Len(chunk_dicts) = 1
    /\ chunk_dicts[1].page_numbers = <<1>>
    /\ ck_in.kind = "summary" => chunk_dicts[1].page_range = <<1, "-", 1>>

\* page_range of a summary chunk with pages is "{min}-{max}" of them.
PageRangeIsMinMax ==
    \A k \in 1..Len(chunk_dicts) :
        (ck_in.kind = "summary" /\ chunk_dicts[k].page_numbers # <<>>) =>
            LET pn == chunk_dicts[k].page_numbers
                pr == chunk_dicts[k].page_range
            IN  /\ Len(pr) = 3
                /\ pr[2] = "-"
                /\ \E i \in 1..Len(pn) : pn[i] = pr[1]
                /\ \E i \in 1..Len(pn) : pn[i] = pr[3]
                /\ \A i \in 1..Len(pn) : pr[1] <= pn[i] /\ pn[i] <= pr[3]

\* C24 (as claimed): one page numbered 1 of exactly chunk_size characters
\* with overlap 0 gives exactly one chunk, of page 1, with page_range "1-1".
C24_OnePageOneChunk ==
    /\ PageRangeIsMinMax
    /\ (ck_pc = "returned" /\ OnePageOfTargetSize) => OneChunkOfPageOne

\* C24 (amended): the same, for a chunk_size of 2 or more and a text with
\* at least one character that is not whitespace.
C24_OnePageWithContentOneChunk ==
    /\ PageRangeIsMinMax
    /\ (/\ ck_pc = "returned"
        /\ OnePageOfTargetSize
        /\ ck_in.chunk_size >= 2
        /\ HasContent(ck_in.pages_data)) => OneChunkOfPageOne

\* Such a pass, its text with a separator inside.
C24_Witness ==
    /\ ck_pc = "returned"
    /\ OnePageOfTargetSize
    /\ ck_in.chunk_size >= 3
    /\ ck_in.kind = "summary"
    /\ ck_in.pages_data[1].text[2] = SP
    /\ Len(chunk_dicts) = 1


\* C25 (as claimed): for k >= 1 the value computed lies between 0 and 1, and
\* the hits counted are at most k and at most the number of relevant ids.
C25_RatiosWithinUnit ==
    (met_out # <<>> /\ met_in.k >= 1) =>
        /\ 0 <= met_out.value.num
        /\ met_out.value.num <= met_out.value.den
        /\ met_out.value.num <= met_in.k
        /\ met_out.value.num <= Cardinality(met_in.relevant_ids)


\* C26: summaries_completed is the length of chunk_summaries and at most
\* total_chunks; in reducing and complete chunk_summaries has total_chunks
\* entries, one per summary chunk; and a complete state has the
\* final_summary of a synthesis call made after every map call returned.
C26_CountsConsistent ==
    \A r \in Reqs :
        /\ state[r].summaries_completed = Len(state[r].chunk_summaries)
        /\ state[r].summaries_completed <= state[r].total_chunks
        /\ state[r].status \in {"reducing", "complete"} =>
               /\ Len(state[r].chunk_summaries) = state[r].total_chunks
               /\ state[r].total_chunks = Len(documents_db[doc_of[r]].summary_chunks)
        /\ state[r].status = "complete" =>
               /\ synth[r].st = "ok"
               /\ state[r].final_summary = synth[r].content
               /\ synth[r].section_count = NChunks(r)
               /\ Len(calls[r]) = NChunks(r)
               /\ \A i \in DOMAIN calls[r] : calls[r][i] = "returned"

\* A complete run over two chunks beside a run still mapping with one call
\* returned.
C26_Witness ==
    \E r, q \in Reqs :
        /\ state[r].status = "complete"
        /\ state[r].summaries_completed = 2
        /\ state[q].status = "mapping"
        /\ \E i \in DOMAIN calls[q] : calls[q][i] = "returned"


\* C27 (as claimed, for a document with summary chunks, a summary being set
\* when it is not None): the record's status is summarized exactly when a
\* summary is stored, and it is error only while none is.
C27_RecordStatusMatchesSummary ==
    Len(documents_db[DocId].summary_chunks) >= 1 =>
        /\ documents_db[DocId].status = "summarized"
               <=> documents_db[DocId].summary # None
        /\ documents_db[DocId].status = "error"
               => documents_db[DocId].summary = None


\* The cursor before chunk k is attributed: 0, then one past the start
\* located for the chunk before.
CursorBefore(k) == IF k = 1 THEN 0 ELSE chunk_starts[k - 1] + 1

\* C28 (as claimed): chunk_index runs 0..n-1 in output order, the cursor
\* never moves backwards, and the chunk_start offsets located are strictly
\* increasing.
C28_OrderOfAppearance ==
    /\ \A k \in Attributed : chunk_dicts[k].chunk_index = k - 1
    /\ \A k \in Attributed : CursorBefore(k) <= chunk_starts[k] + 1
    /\ \A k \in 1..(Len(chunk_starts) - 1) : chunk_starts[k] < chunk_starts[k + 1]
    /\ current_position = CursorBefore(Len(chunk_starts) + 1)


\* What holds of r's calls in a state: one map call per summary chunk once
\* they are issued, each summary made with total = total_chunks, and a
\* synthesis call only with every map call returned.
CallsOfRun(r) ==
    /\ calls[r] # <<>> => Len(calls[r]) = NChunks(r)
    /\ state[r].status \in {"reducing", "complete"} =>
           \A k \in 1..Len(state[r].chunk_summaries) :
               state[r].chunk_summaries[k]
                   = SummarizeSection(k, state[r].total_chunks)
    /\ synth[r].st # "none" =>
           /\ Len(calls[r]) = NChunks(r)
           /\ \A i \in DOMAIN calls[r] : calls[r][i] = "returned"

\* C29: a run issues one summarization call per summary chunk, each with
\* total = total_chunks; a call that has returned or failed is not made
\* again; and the run makes one synthesis call, only after every map call
\* has returned.
C29_OneCallPerChunk ==
    [][\A r \in Reqs :
          /\ CallsOfRun(r)'
          /\ calls[r] # <<>> => DOMAIN calls'[r] = DOMAIN calls[r]
          /\ \A i \in DOMAIN calls[r] :
                 calls[r][i] # "pending" => calls'[r][i] = calls[r][i]
          /\ synth[r].st # "none" => synth'[r] = synth[r]]_vars

\* One run made its synthesis call over two chunks, another ended on a
\* failed call.
C29_Witness ==
    \E r, q \in Reqs :
        /\ synth[r].st = "ok"
        /\ Len(calls[r]) = 2
        /\ pc[q] = "http500"
        /\ MapFailed(q)


\* C30 (as claimed, for a run over at least one chunk): with every call
\* returning or failing, a run started in distributing reaches status
\* complete or error.
C30_RunReachesTerminalStatus ==
    \A r \in Reqs :
        (state[r].status = "distributing" /\ NChunks(r) >= 1)
            ~> (state[r].status \in {"complete", "error"})

====
